---- MODULE Spec2Model ----
(***************************************************************************)
(* Model of the Eather Grid session contract                               *)
(* (src/aether-grid-app/contracts/eather-grid/src/lib.rs).                 *)
(*                                                                         *)
(* The contract keeps one Game record per session id in temporary storage. *)
(* Every entry point runs as one host transaction: it either returns (Ok   *)
(* or a typed Error) and its storage writes are committed, or it traps and *)
(* every write made by it and by the contracts it called is rolled back.   *)
(* The game hub and the verifier are external contracts.                   *)
(***************************************************************************)
EXTENDS Integers, Sequences, FiniteSets, TLC

VARIABLES
    games,      \* temporary storage: DataKey::Game(session_id) -> Game
    hubEnded,   \* the hub's ledger: committed end_game calls per session id
    outcomeOf,  \* history: Outcome returned by the call that resolved the stored record
    instance,   \* instance storage: DataKey::Admin, GameHubAddress, VerifierAddress
    last        \* the last invocation: entry point, session id, submitting player and
                \* public_inputs (submit_proof), players and points (start_game),
                \* signer and new address (set_admin, set_hub, set_verifier),
                \* value returned, external calls made with the address called

vars == <<games, hubEnded, outcomeOf, instance, last>>

---------------------------------------------------------------------------
(* Input domains and bounds *)

\* Number of end_game calls the hub ledger of the model counts per id.
MaxEndCalls == 2

\* Session ids of the model; id 2 is never started under Spec (GameNotFound).
SessionIds == {1, 2}
Addresses == {"A", "B", "C"}
\* (player1_points, player2_points) of a start_game call: the equal amounts
\* of test.rs (POINTS), and two different amounts.
PointPairs == { <<100, 100>>, <<100, 250>> }

\* The argument vector a player signed for a start_game call; <<>> when the
\* player signed nothing.
NoAuth == << >>
AuthArgs(session_id, points) == << session_id, points >>

\* What the two players signed for in a start_game call for id i with points
\* s1, s2: each the id with the own points, one of them nothing, or each the
\* id with the other player's points.
AuthCases(i, s1, s2) ==
    { << AuthArgs(i, s1), AuthArgs(i, s2) >>,
      << NoAuth, AuthArgs(i, s2) >>,
      << AuthArgs(i, s1), NoAuth >>,
      << AuthArgs(i, s2), AuthArgs(i, s1) >> }

\* Addresses of the admin, the game hub and the verifier: the ones given to
\* the constructor and one more of each to change to.
Admins == {"admin", "admin2"}
Hubs == {"hub", "hub2"}
Verifiers == {"verifier", "verifier2"}
\* Who authorizes an admin call: an admin address or a player.
Signers == Admins \cup {"A"}

\* Proof bytes: empty, starting with 0xff, and an ordinary one.
Proofs == {<<>>, <<255>>, <<1>>}

---------------------------------------------------------------------------
(* Bytes and hashing *)

\* session_id.to_be_bytes(): four big-endian bytes.
to_be_bytes(n) ==
    << (n \div 16777216) % 256, (n \div 65536) % 256, (n \div 256) % 256, n % 256 >>

\* Address::to_string().to_bytes(): the strkey of the address (fixed length).
AddressBytes(a) == << a >>

\* A seed that leaves the session id out.
Seed_noid(session_id, player1, player2) ==
    AddressBytes(player1) \o AddressBytes(player2)

\* seed = session_id bytes, then player1 bytes, then player2 bytes.
Seed(session_id, player1, player2) ==
    to_be_bytes(session_id) \o AddressBytes(player1) \o AddressBytes(player2)

\* env.crypto().keccak256(seed): a 32-byte digest, collision-free on its input.
keccak256(seed) == [digest |-> seed]

\* Bytes::from_array(&target.to_array()): the digest as a 32-byte Bytes value.
BytesOfDigest(d) == [len |-> 32, data |-> d]

\* The all-zero 32-byte buffer of test_wrong_public_inputs_rejected.
ZeroBytes == [len |-> 32, data |-> [digest |-> <<0>>]]

\* Caller-supplied public_inputs tried against a store: for every stored
\* record its own target, the target the same players have under every other
\* session id (a proof input copied from another session), the target with the
\* players swapped, a 33-byte buffer that starts with the target, and the
\* all-zero buffer.
PublicInputs(store) ==
    { BytesOfDigest(keccak256(Seed(j, store[k].player1, store[k].player2))) :
        j \in SessionIds, k \in DOMAIN store }
      \cup { BytesOfDigest(keccak256(Seed(k, store[k].player2, store[k].player1))) :
                k \in DOMAIN store }
      \cup { [len |-> 33, data |-> store[k].target_public_inputs] : k \in DOMAIN store }
      \cup { ZeroBytes }

---------------------------------------------------------------------------
(* Data types *)

\* NewGame with the two points fields exchanged.
NewGame_swapped(player1, player2, player1_points, player2_points, target) ==
    [ player1 |-> player1,
      player2 |-> player2,
      player1_points |-> player2_points,
      player2_points |-> player1_points,
      target_public_inputs |-> target,
      player1_verified |-> FALSE,
      player2_verified |-> FALSE,
      resolved |-> FALSE ]

NewGame(player1, player2, player1_points, player2_points, target) ==
    [ player1 |-> player1,
      player2 |-> player2,
      player1_points |-> player1_points,
      player2_points |-> player2_points,
      target_public_inputs |-> target,
      player1_verified |-> FALSE,
      player2_verified |-> FALSE,
      resolved |-> FALSE ]

\* The match with the arms of the single winners exchanged.
OutcomeMatch_swapped(p1v, p2v) ==
    IF p1v /\ ~p2v THEN "Player2Won"
    ELSE IF ~p1v /\ p2v THEN "Player1Won"
    ELSE IF p1v /\ p2v THEN "BothWon"
    ELSE "NeitherWon"

\* match (player1_verified, player2_verified)
OutcomeMatch(p1v, p2v) ==
    IF p1v /\ ~p2v THEN "Player1Won"
    ELSE IF ~p1v /\ p2v THEN "Player2Won"
    ELSE IF p1v /\ p2v THEN "BothWon"
    ELSE "NeitherWon"

\* The flag that reports a joint win as a loss of player1.
Player1WonFlag_solo(outcome) == outcome = "Player1Won"

\* matches!(outcome, Outcome::Player1Won | Outcome::BothWon)
Player1WonFlag(outcome) == outcome \in {"Player1Won", "BothWon"}

---------------------------------------------------------------------------
(* Storage *)

Has(store, session_id) == session_id \in DOMAIN store

\* A set that drops the entries of the other keys.
StorageSet_only(store, session_id, game) ==
    [ k \in {session_id} |-> game ]

StorageSet(store, session_id, game) ==
    [ k \in (DOMAIN store) \cup {session_id} |->
        IF k = session_id THEN game ELSE store[k] ]

---------------------------------------------------------------------------
(* External contracts *)

\* MockVerifier.verify_proof: traps on an empty proof or one starting with 0xff.
VerifierAccepts(proof, public_inputs) ==
    /\ Len(proof) > 0
    /\ proof[1] # 255

\* A cross-contract call: what was called with which arguments, and whether
\* the callee returned normally (FALSE: it trapped).
VerifyCall(proof, public_inputs) ==
    [fn |-> "verify_proof", proof |-> proof, public_inputs |-> public_inputs,
     returned |-> VerifierAccepts(proof, public_inputs)]

\* stored: whether the store holds a record for the id at the moment of the call.
HubStartCall(session_id, player1, player2, player1_points, player2_points, store, hubOk) ==
    [fn |-> "start_game", session_id |-> session_id,
     player1 |-> player1, player2 |-> player2,
     player1_points |-> player1_points, player2_points |-> player2_points,
     stored |-> session_id \in DOMAIN store, returned |-> hubOk]

\* resolved_in_store: the stored resolved flag at the moment of the call.
HubEndCall(session_id, player1_won, store, hubOk) ==
    [fn |-> "end_game", session_id |-> session_id, player1_won |-> player1_won,
     resolved_in_store |-> store[session_id].resolved, returned |-> hubOk]

\* The calls of an invocation with the address each is sent to: the hub and
\* the verifier address are read from instance storage at the call.
Routed(calls, inst) ==
    [ k \in DOMAIN calls |->
        [to |-> IF calls[k].fn = "verify_proof" THEN inst.verifier ELSE inst.game_hub]
          @@ calls[k] ]

---------------------------------------------------------------------------
(* Results of one invocation: the working storage, the value returned, the *)
(* external calls made, and whether the invocation trapped.                *)

Returned(store, ret, calls) ==
    [trap |-> FALSE, ret |-> ret, store |-> store, calls |-> calls]

\* why: "AuthTrap" (require_auth failed), "PanicTrap" (panic! in the contract),
\* "VerifierTrap" / "HubTrap" (the called contract trapped).
Trapped(store, calls, why) ==
    [trap |-> TRUE, ret |-> why, store |-> store, calls |-> calls]

Traps == {"AuthTrap", "PanicTrap", "VerifierTrap", "HubTrap"}

\* A host that keeps the storage writes of a trapped invocation.
Commit_keep(store, r) == r.store

\* Host transaction semantics: a trap discards the storage writes.
Commit(store, r) == IF r.trap THEN store ELSE r.store

---------------------------------------------------------------------------
(* Entry points *)

\* start_game that ignores a rejection by the hub.
start_game_swallow(store, session_id, player1, player2, player1_points, player2_points, auth1, auth2, hubOk) ==
    IF player1 = player2 THEN Trapped(store, <<>>, "PanicTrap")
    ELSE IF auth1 # AuthArgs(session_id, player1_points) THEN Trapped(store, <<>>, "AuthTrap")
    ELSE IF auth2 # AuthArgs(session_id, player2_points) THEN Trapped(store, <<>>, "AuthTrap")
    ELSE
      LET target == keccak256(Seed(session_id, player1, player2))
          call == HubStartCall(session_id, player1, player2,
                               player1_points, player2_points, store, hubOk)
          game == NewGame(player1, player2, player1_points, player2_points, target)
      IN  Returned(StorageSet(store, session_id, game), "Ok", <<call>>)

\* start_game without the self-play check.
start_game_selfplay(store, session_id, player1, player2, player1_points, player2_points, auth1, auth2, hubOk) ==
    IF auth1 # AuthArgs(session_id, player1_points) THEN Trapped(store, <<>>, "AuthTrap")
    ELSE IF auth2 # AuthArgs(session_id, player2_points) THEN Trapped(store, <<>>, "AuthTrap")
    ELSE
      LET target == keccak256(Seed(session_id, player1, player2))
          call == HubStartCall(session_id, player1, player2,
                               player1_points, player2_points, store, hubOk)
          game == NewGame(player1, player2, player1_points, player2_points, target)
      IN  IF ~hubOk THEN Trapped(store, <<call>>, "HubTrap")
          ELSE Returned(StorageSet(store, session_id, game), "Ok", <<call>>)

\* start_game that persists the record before it calls the hub.
start_game_stored_first(store, session_id, player1, player2, player1_points, player2_points, auth1, auth2, hubOk) ==
    IF player1 = player2 THEN Trapped(store, <<>>, "PanicTrap")
    ELSE IF auth1 # AuthArgs(session_id, player1_points) THEN Trapped(store, <<>>, "AuthTrap")
    ELSE IF auth2 # AuthArgs(session_id, player2_points) THEN Trapped(store, <<>>, "AuthTrap")
    ELSE
      LET target == keccak256(Seed(session_id, player1, player2))
          game == NewGame(player1, player2, player1_points, player2_points, target)
          written == StorageSet(store, session_id, game)
          call == HubStartCall(session_id, player1, player2,
                               player1_points, player2_points, written, hubOk)
      IN  IF ~hubOk THEN Trapped(written, <<call>>, "HubTrap")
          ELSE Returned(written, "Ok", <<call>>)

\* start_game that keeps the record of an id that already has one.
start_game_keep(store, session_id, player1, player2, player1_points, player2_points, auth1, auth2, hubOk) ==
    IF player1 = player2 THEN Trapped(store, <<>>, "PanicTrap")
    ELSE IF auth1 # AuthArgs(session_id, player1_points) THEN Trapped(store, <<>>, "AuthTrap")
    ELSE IF auth2 # AuthArgs(session_id, player2_points) THEN Trapped(store, <<>>, "AuthTrap")
    ELSE
      LET target == keccak256(Seed(session_id, player1, player2))
          game == NewGame(player1, player2, player1_points, player2_points, target)
          call == HubStartCall(session_id, player1, player2,
                               player1_points, player2_points, store, hubOk)
      IN  IF ~hubOk THEN Trapped(store, <<call>>, "HubTrap")
          ELSE IF Has(store, session_id) THEN Returned(store, "Ok", <<call>>)
          ELSE Returned(StorageSet(store, session_id, game), "Ok", <<call>>)

\* start_game that asks only player1 for authorization.
start_game_oneauth(store, session_id, player1, player2, player1_points, player2_points, auth1, auth2, hubOk) ==
    IF player1 = player2 THEN Trapped(store, <<>>, "PanicTrap")
    ELSE IF auth1 # AuthArgs(session_id, player1_points) THEN Trapped(store, <<>>, "AuthTrap")
    ELSE
      LET target == keccak256(Seed(session_id, player1, player2))
          call == HubStartCall(session_id, player1, player2,
                               player1_points, player2_points, store, hubOk)
          game == NewGame(player1, player2, player1_points, player2_points, target)
      IN  IF ~hubOk THEN Trapped(store, <<call>>, "HubTrap")
          ELSE Returned(StorageSet(store, session_id, game), "Ok", <<call>>)

\* auth1 / auth2: the argument vector player1 / player2 signed for, which
\* require_auth_for_args compares with (session_id, the player's points).
start_game(store, session_id, player1, player2, player1_points, player2_points, auth1, auth2, hubOk) ==
    IF player1 = player2 THEN Trapped(store, <<>>, "PanicTrap")
    ELSE IF auth1 # AuthArgs(session_id, player1_points) THEN Trapped(store, <<>>, "AuthTrap")
    ELSE IF auth2 # AuthArgs(session_id, player2_points) THEN Trapped(store, <<>>, "AuthTrap")
    ELSE
      LET target == keccak256(Seed(session_id, player1, player2))
          call == HubStartCall(session_id, player1, player2,
                               player1_points, player2_points, store, hubOk)
          game == NewGame(player1, player2, player1_points, player2_points, target)
      IN  IF ~hubOk THEN Trapped(store, <<call>>, "HubTrap")
          ELSE Returned(StorageSet(store, session_id, game), "Ok", <<call>>)

\* submit_proof without the late-submission check.
submit_proof_late(store, session_id, player, proof, public_inputs, authed) ==
    IF ~authed THEN Trapped(store, <<>>, "AuthTrap")
    ELSE IF ~Has(store, session_id) THEN Returned(store, "GameNotFound", <<>>)
    ELSE
      LET game == store[session_id]
          is_player1 == player = game.player1
          is_player2 == player = game.player2
          expected == BytesOfDigest(game.target_public_inputs)
          call == VerifyCall(proof, public_inputs)
          marked == IF is_player1
                    THEN [game EXCEPT !.player1_verified = TRUE]
                    ELSE [game EXCEPT !.player2_verified = TRUE]
      IN  IF ~is_player1 /\ ~is_player2 THEN Returned(store, "NotPlayer", <<>>)
          ELSE IF is_player1 /\ game.player1_verified
               THEN Returned(store, "AlreadyVerified", <<>>)
          ELSE IF is_player2 /\ game.player2_verified
               THEN Returned(store, "AlreadyVerified", <<>>)
          ELSE IF public_inputs # expected
               THEN Returned(store, "PublicInputMismatch", <<>>)
          ELSE IF ~VerifierAccepts(proof, public_inputs)
               THEN Trapped(store, <<call>>, "VerifierTrap")
          ELSE Returned(StorageSet(store, session_id, marked), "Ok", <<call>>)

\* submit_proof without the duplicate-submission checks.
submit_proof_dup(store, session_id, player, proof, public_inputs, authed) ==
    IF ~authed THEN Trapped(store, <<>>, "AuthTrap")
    ELSE IF ~Has(store, session_id) THEN Returned(store, "GameNotFound", <<>>)
    ELSE
      LET game == store[session_id]
          is_player1 == player = game.player1
          is_player2 == player = game.player2
          expected == BytesOfDigest(game.target_public_inputs)
          call == VerifyCall(proof, public_inputs)
          marked == IF is_player1
                    THEN [game EXCEPT !.player1_verified = TRUE]
                    ELSE [game EXCEPT !.player2_verified = TRUE]
      IN  IF game.resolved THEN Returned(store, "GameAlreadyResolved", <<>>)
          ELSE IF ~is_player1 /\ ~is_player2
               THEN Returned(store, "NotPlayer", <<>>)
          ELSE IF public_inputs # expected
               THEN Returned(store, "PublicInputMismatch", <<>>)
          ELSE IF ~VerifierAccepts(proof, public_inputs)
               THEN Trapped(store, <<call>>, "VerifierTrap")
          ELSE Returned(StorageSet(store, session_id, marked), "Ok", <<call>>)

\* submit_proof without the public_inputs comparison.
submit_proof_nopi(store, session_id, player, proof, public_inputs, authed) ==
    IF ~authed THEN Trapped(store, <<>>, "AuthTrap")
    ELSE IF ~Has(store, session_id) THEN Returned(store, "GameNotFound", <<>>)
    ELSE
      LET game == store[session_id]
          is_player1 == player = game.player1
          is_player2 == player = game.player2
          expected == BytesOfDigest(game.target_public_inputs)
          call == VerifyCall(proof, public_inputs)
          marked == IF is_player1
                    THEN [game EXCEPT !.player1_verified = TRUE]
                    ELSE [game EXCEPT !.player2_verified = TRUE]
      IN  IF game.resolved THEN Returned(store, "GameAlreadyResolved", <<>>)
          ELSE IF ~is_player1 /\ ~is_player2
               THEN Returned(store, "NotPlayer", <<>>)
          ELSE IF is_player1 /\ game.player1_verified
               THEN Returned(store, "AlreadyVerified", <<>>)
          ELSE IF is_player2 /\ game.player2_verified
               THEN Returned(store, "AlreadyVerified", <<>>)
          ELSE IF ~VerifierAccepts(proof, public_inputs)
               THEN Trapped(store, <<call>>, "VerifierTrap")
          ELSE Returned(StorageSet(store, session_id, marked), "Ok", <<call>>)

\* submit_proof that goes on when the verifier rejects.
submit_proof_noverdict(store, session_id, player, proof, public_inputs, authed) ==
    IF ~authed THEN Trapped(store, <<>>, "AuthTrap")
    ELSE IF ~Has(store, session_id) THEN Returned(store, "GameNotFound", <<>>)
    ELSE
      LET game == store[session_id]
          is_player1 == player = game.player1
          is_player2 == player = game.player2
          expected == BytesOfDigest(game.target_public_inputs)
          call == VerifyCall(proof, public_inputs)
          marked == IF is_player1
                    THEN [game EXCEPT !.player1_verified = TRUE]
                    ELSE [game EXCEPT !.player2_verified = TRUE]
      IN  IF game.resolved THEN Returned(store, "GameAlreadyResolved", <<>>)
          ELSE IF ~is_player1 /\ ~is_player2
               THEN Returned(store, "NotPlayer", <<>>)
          ELSE IF is_player1 /\ game.player1_verified
               THEN Returned(store, "AlreadyVerified", <<>>)
          ELSE IF is_player2 /\ game.player2_verified
               THEN Returned(store, "AlreadyVerified", <<>>)
          ELSE IF public_inputs # expected
               THEN Returned(store, "PublicInputMismatch", <<>>)
          ELSE Returned(StorageSet(store, session_id, marked), "Ok", <<call>>)

\* submit_proof that writes back a rebuilt record instead of the loaded one.
submit_proof_rebuild(store, session_id, player, proof, public_inputs, authed) ==
    IF ~authed THEN Trapped(store, <<>>, "AuthTrap")
    ELSE IF ~Has(store, session_id) THEN Returned(store, "GameNotFound", <<>>)
    ELSE
      LET game == store[session_id]
          is_player1 == player = game.player1
          is_player2 == player = game.player2
          expected == BytesOfDigest(game.target_public_inputs)
          call == VerifyCall(proof, public_inputs)
          fresh == NewGame(game.player1, game.player2, game.player1_points,
                           game.player2_points, game.target_public_inputs)
          marked == IF is_player1
                    THEN [fresh EXCEPT !.player1_verified = TRUE]
                    ELSE [fresh EXCEPT !.player2_verified = TRUE]
      IN  IF game.resolved THEN Returned(store, "GameAlreadyResolved", <<>>)
          ELSE IF ~is_player1 /\ ~is_player2
               THEN Returned(store, "NotPlayer", <<>>)
          ELSE IF is_player1 /\ game.player1_verified
               THEN Returned(store, "AlreadyVerified", <<>>)
          ELSE IF is_player2 /\ game.player2_verified
               THEN Returned(store, "AlreadyVerified", <<>>)
          ELSE IF public_inputs # expected
               THEN Returned(store, "PublicInputMismatch", <<>>)
          ELSE IF ~VerifierAccepts(proof, public_inputs)
               THEN Trapped(store, <<call>>, "VerifierTrap")
          ELSE Returned(StorageSet(store, session_id, marked), "Ok", <<call>>)

\* submit_proof that panics on a caller who is no player of the session.
submit_proof_panics(store, session_id, player, proof, public_inputs, authed) ==
    IF ~authed THEN Trapped(store, <<>>, "AuthTrap")
    ELSE IF ~Has(store, session_id) THEN Returned(store, "GameNotFound", <<>>)
    ELSE
      LET game == store[session_id]
          is_player1 == player = game.player1
          is_player2 == player = game.player2
          expected == BytesOfDigest(game.target_public_inputs)
          call == VerifyCall(proof, public_inputs)
          marked == IF is_player1
                    THEN [game EXCEPT !.player1_verified = TRUE]
                    ELSE [game EXCEPT !.player2_verified = TRUE]
      IN  IF game.resolved THEN Returned(store, "GameAlreadyResolved", <<>>)
          ELSE IF ~is_player1 /\ ~is_player2 THEN Trapped(store, <<>>, "PanicTrap")
          ELSE IF is_player1 /\ game.player1_verified
               THEN Returned(store, "AlreadyVerified", <<>>)
          ELSE IF is_player2 /\ game.player2_verified
               THEN Returned(store, "AlreadyVerified", <<>>)
          ELSE IF public_inputs # expected
               THEN Returned(store, "PublicInputMismatch", <<>>)
          ELSE IF ~VerifierAccepts(proof, public_inputs)
               THEN Trapped(store, <<call>>, "VerifierTrap")
          ELSE Returned(StorageSet(store, session_id, marked), "Ok", <<call>>)

\* submit_proof without the check that the caller is a player of the session.
submit_proof_anyone(store, session_id, player, proof, public_inputs, authed) ==
    IF ~authed THEN Trapped(store, <<>>, "AuthTrap")
    ELSE IF ~Has(store, session_id) THEN Returned(store, "GameNotFound", <<>>)
    ELSE
      LET game == store[session_id]
          is_player1 == player = game.player1
          is_player2 == player = game.player2
          expected == BytesOfDigest(game.target_public_inputs)
          call == VerifyCall(proof, public_inputs)
          marked == IF is_player1
                    THEN [game EXCEPT !.player1_verified = TRUE]
                    ELSE [game EXCEPT !.player2_verified = TRUE]
      IN  IF game.resolved THEN Returned(store, "GameAlreadyResolved", <<>>)
          ELSE IF is_player1 /\ game.player1_verified
               THEN Returned(store, "AlreadyVerified", <<>>)
          ELSE IF is_player2 /\ game.player2_verified
               THEN Returned(store, "AlreadyVerified", <<>>)
          ELSE IF public_inputs # expected
               THEN Returned(store, "PublicInputMismatch", <<>>)
          ELSE IF ~VerifierAccepts(proof, public_inputs)
               THEN Trapped(store, <<call>>, "VerifierTrap")
          ELSE Returned(StorageSet(store, session_id, marked), "Ok", <<call>>)

\* submit_proof with the player check ahead of the resolved check and the
\* public_inputs check ahead of the duplicate check.
submit_proof_reordered(store, session_id, player, proof, public_inputs, authed) ==
    IF ~authed THEN Trapped(store, <<>>, "AuthTrap")
    ELSE IF ~Has(store, session_id) THEN Returned(store, "GameNotFound", <<>>)
    ELSE
      LET game == store[session_id]
          is_player1 == player = game.player1
          is_player2 == player = game.player2
          expected == BytesOfDigest(game.target_public_inputs)
          call == VerifyCall(proof, public_inputs)
          marked == IF is_player1
                    THEN [game EXCEPT !.player1_verified = TRUE]
                    ELSE [game EXCEPT !.player2_verified = TRUE]
      IN  IF ~is_player1 /\ ~is_player2 THEN Returned(store, "NotPlayer", <<>>)
          ELSE IF game.resolved THEN Returned(store, "GameAlreadyResolved", <<>>)
          ELSE IF public_inputs # expected
               THEN Returned(store, "PublicInputMismatch", <<>>)
          ELSE IF is_player1 /\ game.player1_verified
               THEN Returned(store, "AlreadyVerified", <<>>)
          ELSE IF is_player2 /\ game.player2_verified
               THEN Returned(store, "AlreadyVerified", <<>>)
          ELSE IF ~VerifierAccepts(proof, public_inputs)
               THEN Trapped(store, <<call>>, "VerifierTrap")
          ELSE Returned(StorageSet(store, session_id, marked), "Ok", <<call>>)

submit_proof(store, session_id, player, proof, public_inputs, authed) ==
    IF ~authed THEN Trapped(store, <<>>, "AuthTrap")
    ELSE IF ~Has(store, session_id) THEN Returned(store, "GameNotFound", <<>>)
    ELSE
      LET game == store[session_id]
          is_player1 == player = game.player1
          is_player2 == player = game.player2
          expected == BytesOfDigest(game.target_public_inputs)
          call == VerifyCall(proof, public_inputs)
          marked == IF is_player1
                    THEN [game EXCEPT !.player1_verified = TRUE]
                    ELSE [game EXCEPT !.player2_verified = TRUE]
      IN  IF game.resolved THEN Returned(store, "GameAlreadyResolved", <<>>)
          ELSE IF ~is_player1 /\ ~is_player2 THEN Returned(store, "NotPlayer", <<>>)
          ELSE IF is_player1 /\ game.player1_verified
               THEN Returned(store, "AlreadyVerified", <<>>)
          ELSE IF is_player2 /\ game.player2_verified
               THEN Returned(store, "AlreadyVerified", <<>>)
          ELSE IF public_inputs # expected
               THEN Returned(store, "PublicInputMismatch", <<>>)
          ELSE IF ~VerifierAccepts(proof, public_inputs)
               THEN Trapped(store, <<call>>, "VerifierTrap")
          ELSE Returned(StorageSet(store, session_id, marked), "Ok", <<call>>)

\* resolve_game without the early return on an already resolved record.
resolve_game_retried(store, session_id, hubOk) ==
    IF ~Has(store, session_id) THEN Returned(store, "GameNotFound", <<>>)
    ELSE
      LET game == store[session_id]
          outcome == OutcomeMatch(game.player1_verified, game.player2_verified)
          player1_won == Player1WonFlag(outcome)
          written == StorageSet(store, session_id, [game EXCEPT !.resolved = TRUE])
          call == HubEndCall(session_id, player1_won, written, hubOk)
      IN  IF ~game.player1_verified /\ ~game.player2_verified
               THEN Returned(store, "NeitherPlayerSubmitted", <<>>)
          ELSE IF ~hubOk THEN Trapped(written, <<call>>, "HubTrap")
          ELSE Returned(written, outcome, <<call>>)

\* resolve_game without the at-least-one-submission check.
resolve_game_empty(store, session_id, hubOk) ==
    IF ~Has(store, session_id) THEN Returned(store, "GameNotFound", <<>>)
    ELSE
      LET game == store[session_id]
          outcome == OutcomeMatch(game.player1_verified, game.player2_verified)
          player1_won == Player1WonFlag(outcome)
          written == StorageSet(store, session_id, [game EXCEPT !.resolved = TRUE])
          call == HubEndCall(session_id, player1_won, written, hubOk)
      IN  IF game.resolved THEN Returned(store, outcome, <<>>)
          ELSE IF ~hubOk THEN Trapped(written, <<call>>, "HubTrap")
          ELSE Returned(written, outcome, <<call>>)

\* resolve_game that reports to the hub before it persists the resolved flag.
resolve_game_report_first(store, session_id, hubOk) ==
    IF ~Has(store, session_id) THEN Returned(store, "GameNotFound", <<>>)
    ELSE
      LET game == store[session_id]
          outcome == OutcomeMatch(game.player1_verified, game.player2_verified)
          player1_won == Player1WonFlag(outcome)
          written == StorageSet(store, session_id, [game EXCEPT !.resolved = TRUE])
          call == HubEndCall(session_id, player1_won, store, hubOk)
      IN  IF game.resolved THEN Returned(store, outcome, <<>>)
          ELSE IF ~game.player1_verified /\ ~game.player2_verified
               THEN Returned(store, "NeitherPlayerSubmitted", <<>>)
          ELSE IF ~hubOk THEN Trapped(store, <<call>>, "HubTrap")
          ELSE Returned(written, outcome, <<call>>)

\* resolve_game that asks for the submissions of both players.
resolve_game_both(store, session_id, hubOk) ==
    IF ~Has(store, session_id) THEN Returned(store, "GameNotFound", <<>>)
    ELSE
      LET game == store[session_id]
          outcome == OutcomeMatch(game.player1_verified, game.player2_verified)
          player1_won == Player1WonFlag(outcome)
          written == StorageSet(store, session_id, [game EXCEPT !.resolved = TRUE])
          call == HubEndCall(session_id, player1_won, written, hubOk)
      IN  IF game.resolved THEN Returned(store, outcome, <<>>)
          ELSE IF ~game.player1_verified \/ ~game.player2_verified
               THEN Returned(store, "NeitherPlayerSubmitted", <<>>)
          ELSE IF ~hubOk THEN Trapped(written, <<call>>, "HubTrap")
          ELSE Returned(written, outcome, <<call>>)

resolve_game(store, session_id, hubOk) ==
    IF ~Has(store, session_id) THEN Returned(store, "GameNotFound", <<>>)
    ELSE
      LET game == store[session_id]
          outcome == OutcomeMatch(game.player1_verified, game.player2_verified)
          player1_won == Player1WonFlag(outcome)
          written == StorageSet(store, session_id, [game EXCEPT !.resolved = TRUE])
          call == HubEndCall(session_id, player1_won, written, hubOk)
      IN  IF game.resolved THEN Returned(store, outcome, <<>>)
          ELSE IF ~game.player1_verified /\ ~game.player2_verified
               THEN Returned(store, "NeitherPlayerSubmitted", <<>>)
          ELSE IF ~hubOk THEN Trapped(written, <<call>>, "HubTrap")
          ELSE Returned(written, outcome, <<call>>)

\* Queries: the stored record, or its target, or GameNotFound.
get_game(store, session_id) ==
    IF ~Has(store, session_id) THEN Returned(store, "GameNotFound", <<>>)
    ELSE Returned(store, store[session_id], <<>>)

get_target(store, session_id) ==
    IF ~Has(store, session_id) THEN Returned(store, "GameNotFound", <<>>)
    ELSE Returned(store, store[session_id].target_public_inputs, <<>>)

---------------------------------------------------------------------------
(* The state machine *)

\* Admin functions on instance storage: admin.require_auth(), then the set.
get_verifier(inst) == inst.verifier

set_admin(inst, signer, new_admin) ==
    IF signer # inst.admin THEN Trapped(inst, <<>>, "AuthTrap")
    ELSE Returned([inst EXCEPT !.admin = new_admin], "Ok", <<>>)

set_hub(inst, signer, new_hub) ==
    IF signer # inst.admin THEN Trapped(inst, <<>>, "AuthTrap")
    ELSE Returned([inst EXCEPT !.game_hub = new_hub], "Ok", <<>>)

\* set_verifier without the admin's authorization.
set_verifier_open(inst, signer, new_verifier) ==
    Returned([inst EXCEPT !.verifier = new_verifier], "Ok", <<>>)

set_verifier(inst, signer, new_verifier) ==
    IF signer # inst.admin THEN Trapped(inst, <<>>, "AuthTrap")
    ELSE Returned([inst EXCEPT !.verifier = new_verifier], "Ok", <<>>)

\* The public_inputs field of an invocation that takes none.
NoBytes == [len |-> 0, data |-> [digest |-> <<>>]]

\* Committed end_game calls of an invocation for session id i.
EndCalls(r, i) ==
    IF r.trap THEN 0
    ELSE Cardinality({ k \in DOMAIN r.calls :
                         r.calls[k].fn = "end_game" /\ r.calls[k].session_id = i })

Init ==
    /\ games = << >>
    /\ hubEnded = [i \in SessionIds |-> 0]
    /\ outcomeOf = [i \in SessionIds |-> "None"]
    /\ instance = [admin |-> "admin", game_hub |-> "hub", verifier |-> "verifier"]
    /\ last = [op |-> "constructor", session_id |-> 0, player |-> "none",
               public_inputs |-> NoBytes, args |-> <<>>,
               ret |-> "Ok", calls |-> <<>>]

StartGame(session_id, player1, player2, player1_points, player2_points, auth1, auth2, hubOk) ==
    LET r == start_game(games, session_id, player1, player2,
                        player1_points, player2_points, auth1, auth2, hubOk)
    IN  /\ hubEnded[session_id] < MaxEndCalls
        /\ games' = Commit(games, r)
        /\ outcomeOf' = IF r.trap THEN outcomeOf
                        ELSE [outcomeOf EXCEPT ![session_id] = "None"]
        /\ last' = [op |-> "start_game", session_id |-> session_id,
                    player |-> "none", public_inputs |-> NoBytes,
                    args |-> <<player1, player2, player1_points, player2_points>>,
                    ret |-> r.ret, calls |-> Routed(r.calls, instance)]
        /\ UNCHANGED <<hubEnded, instance>>

SubmitProof(session_id, player, proof, public_inputs, authed) ==
    LET r == submit_proof(games, session_id, player, proof, public_inputs, authed)
    IN  /\ games' = Commit(games, r)
        /\ last' = [op |-> "submit_proof", session_id |-> session_id,
                    player |-> player, public_inputs |-> public_inputs,
                    args |-> <<>>, ret |-> r.ret, calls |-> Routed(r.calls, instance)]
        /\ UNCHANGED <<hubEnded, outcomeOf, instance>>

ResolveGame(session_id, hubOk) ==
    LET r == resolve_game(games, session_id, hubOk)
        n == EndCalls(r, session_id)
    IN  /\ hubEnded[session_id] + n <= MaxEndCalls
        /\ games' = Commit(games, r)
        /\ hubEnded' = [hubEnded EXCEPT ![session_id] = @ + n]
        /\ outcomeOf' = IF n > 0 THEN [outcomeOf EXCEPT ![session_id] = r.ret]
                        ELSE outcomeOf
        /\ last' = [op |-> "resolve_game", session_id |-> session_id,
                    player |-> "none", public_inputs |-> NoBytes,
                    args |-> <<>>, ret |-> r.ret, calls |-> Routed(r.calls, instance)]
        /\ UNCHANGED instance

\* An admin call: r is the result of the admin function on instance storage.
AdminCall(op, signer, new_address, r) ==
    /\ instance' = Commit(instance, r)
    /\ last' = [op |-> op, session_id |-> 0, player |-> signer,
                public_inputs |-> NoBytes, args |-> <<new_address>>,
                ret |-> r.ret, calls |-> r.calls]
    /\ UNCHANGED <<games, hubEnded, outcomeOf>>

SetAdmin(signer, new_admin) ==
    AdminCall("set_admin", signer, new_admin, set_admin(instance, signer, new_admin))

SetHub(signer, new_hub) ==
    AdminCall("set_hub", signer, new_hub, set_hub(instance, signer, new_hub))

SetVerifier(signer, new_verifier) ==
    AdminCall("set_verifier", signer, new_verifier, set_verifier(instance, signer, new_verifier))

\* One step of the contract with the inputs drawn from the given sets.
NextOver(ids, addrs, points) ==
    \/ \E i \in ids, p1 \in addrs, p2 \in addrs, s \in points, hubOk \in BOOLEAN :
          \E a \in AuthCases(i, s[1], s[2]) :
             StartGame(i, p1, p2, s[1], s[2], a[1], a[2], hubOk)
    \/ \E i \in ids, p \in addrs, proof \in Proofs,
          pi \in PublicInputs(games), authed \in BOOLEAN :
          SubmitProof(i, p, proof, pi, authed)
    \/ \E i \in ids, hubOk \in BOOLEAN : ResolveGame(i, hubOk)

\* One session id, every pair of addresses, both pairs of points.
Next == NextOver({1}, Addresses, PointPairs)

Spec == Init /\ [][Next]_vars

\* The targets of the stored records as public_inputs: the session's own
\* target and the targets of the other sessions.
StoredTargets(store) ==
    { BytesOfDigest(store[k].target_public_inputs) : k \in DOMAIN store }

\* Two session ids, the two players of test.rs in either order with the points
\* of test.rs and both authorizations, a valid and an invalid proof, and the
\* stored targets as public_inputs.
NextTwo ==
    \/ \E i \in SessionIds, p1 \in {"A", "B"}, p2 \in {"A", "B"}, hubOk \in BOOLEAN :
          StartGame(i, p1, p2, 100, 100, AuthArgs(i, 100), AuthArgs(i, 100), hubOk)
    \/ \E i \in SessionIds, p \in {"A", "B"}, proof \in {<<1>>, <<255>>},
          pi \in StoredTargets(games) :
          SubmitProof(i, p, proof, pi, TRUE)
    \/ \E i \in SessionIds, hubOk \in BOOLEAN : ResolveGame(i, hubOk)

SpecTwo == Init /\ [][NextTwo]_vars

\* One session id and the two players of test.rs, with every authorization
\* case of start_game and submit_proof.
AuthPlayers == {"A", "B"}

NextAuth == NextOver({1}, AuthPlayers, PointPairs)

SpecAuth == Init /\ [][NextAuth]_vars

\* One session of the two players of test.rs, always authorized, with a valid
\* and an invalid proof, and the admin functions with every signer.
NextAdmin ==
    \/ \E hubOk \in BOOLEAN :
          StartGame(1, "A", "B", 100, 100, AuthArgs(1, 100), AuthArgs(1, 100), hubOk)
    \/ \E p \in {"A", "B"}, proof \in {<<1>>, <<255>>}, pi \in StoredTargets(games) :
          SubmitProof(1, p, proof, pi, TRUE)
    \/ \E hubOk \in BOOLEAN : ResolveGame(1, hubOk)
    \/ \E signer \in Signers, a \in Admins : SetAdmin(signer, a)
    \/ \E signer \in Signers, h \in Hubs : SetHub(signer, h)
    \/ \E signer \in Signers, v \in Verifiers : SetVerifier(signer, v)

SpecAdmin == Init /\ [][NextAdmin]_vars

\* One session id, the two players of test.rs in either order, always
\* authorized, a valid and an invalid proof, an accepting and a rejecting hub.
NextLive ==
    \/ \E p1 \in {"A", "B"}, p2 \in {"A", "B"}, s \in PointPairs, hubOk \in BOOLEAN :
          StartGame(1, p1, p2, s[1], s[2], AuthArgs(1, s[1]), AuthArgs(1, s[2]), hubOk)
    \/ \E p \in {"A", "B"}, proof \in {<<1>>, <<255>>}, pi \in StoredTargets(games) :
          SubmitProof(1, p, proof, pi, TRUE)
    \/ \E hubOk \in BOOLEAN : ResolveGame(1, hubOk)

\* resolve_game needs no authorization: anyone may send the call, and a call
\* that stays possible is eventually made while the hub accepts.
SpecLive == Init /\ [][NextLive]_vars /\ WF_vars(ResolveGame(1, TRUE))

---------------------------------------------------------------------------
(* Properties *)

Outcomes == {"Player1Won", "Player2Won", "BothWon", "NeitherWon"}

Resolved(i) == Has(games, i) /\ games[i].resolved
Flag1(i) == Has(games, i) /\ games[i].player1_verified
Flag2(i) == Has(games, i) /\ games[i].player2_verified

\* The verified flag of the record that belongs to the given address.
VerifiedOf(game, player) ==
    \/ player = game.player1 /\ game.player1_verified
    \/ player = game.player2 /\ game.player2_verified

IsPlayer(game, player) == player = game.player1 \/ player = game.player2

\* The typed errors that submit_proof and resolve_game return.
TypedErrors ==
    {"GameNotFound", "NotPlayer", "AlreadyVerified", "GameAlreadyResolved",
     "PublicInputMismatch", "NeitherPlayerSubmitted"}

\* The record that start_game(id, a[1], a[2], a[3], a[4]) writes.
FreshRecord(id, a) ==
    [ player1 |-> a[1],
      player2 |-> a[2],
      player1_points |-> a[3],
      player2_points |-> a[4],
      target_public_inputs |-> keccak256(Seed(id, a[1], a[2])),
      player1_verified |-> FALSE,
      player2_verified |-> FALSE,
      resolved |-> FALSE ]

\* The session exists, is unresolved and has a verified flag set.
Resolvable(i) ==
    /\ Has(games, i) /\ ~games[i].resolved
    /\ games[i].player1_verified \/ games[i].player2_verified

\* The invocation l was a start_game for id i that the hub accepted.
AcceptedStart(l, i) ==
    /\ l.op = "start_game" /\ l.session_id = i /\ l.ret = "Ok"
    /\ Len(l.calls) = 1 /\ l.calls[1].fn = "start_game" /\ l.calls[1].returned

\* C1 (as stated): for every session id the hub's end_game is invoked at most
\* once, over any sequence of start_game, submit_proof and resolve_game calls.
C1_EndGameAtMostOncePerId == \A i \in SessionIds : hubEnded[i] <= 1

\* C1 (amended): end_game is invoked at most once per stored session record:
\* every invocation is made by a resolve_game call on a record that is
\* unresolved before the call and resolved after it, and counts once. A retried
\* resolve_game therefore never invokes it again.
C1_EndGameOncePerRecord ==
    [][ \A i \in SessionIds :
          hubEnded'[i] # hubEnded[i] =>
            /\ hubEnded'[i] = hubEnded[i] + 1
            /\ last'.op = "resolve_game" /\ last'.session_id = i
            /\ Has(games, i) /\ ~games[i].resolved
            /\ Resolved(i)' ]_vars

C1_RetriedResolve ==
    \E i \in SessionIds :
        /\ Resolved(i) /\ hubEnded[i] = 1
        /\ last.op = "resolve_game" /\ last.session_id = i
        /\ last.ret \in Outcomes /\ last.calls = <<>>

\* C2: resolve_game on an already resolved session returns the Outcome that
\* the resolving call returned, makes no hub call and leaves the stored record
\* (and the hub's ledger) unchanged.
C2_ResolveIdempotent ==
    [][ (last'.op = "resolve_game" /\ Resolved(last'.session_id)) =>
          /\ last'.ret = outcomeOf[last'.session_id]
          /\ last'.ret \in Outcomes
          /\ last'.calls = <<>>
          /\ games' = games
          /\ hubEnded' = hubEnded ]_vars

C2_SecondResolve ==
    \E i \in SessionIds :
        /\ Resolved(i)
        /\ last.op = "resolve_game" /\ last.session_id = i /\ last.calls = <<>>
        /\ last.ret = outcomeOf[i] /\ last.ret = "Player2Won"

\* C3: a submit_proof call on a resolved session never reaches the verifier
\* and changes nothing in the store, whoever calls with whatever proof and
\* public_inputs; it returns GameAlreadyResolved (a call that lacks the
\* player's authorization traps in require_auth before the lookup).
C3_NoSubmissionAfterResolve ==
    [][ (last'.op = "submit_proof" /\ Resolved(last'.session_id)) =>
          /\ last'.calls = <<>>
          /\ games' = games
          /\ last'.ret \in {"GameAlreadyResolved", "AuthTrap"} ]_vars

C3_LateSubmission ==
    \E i \in SessionIds :
        /\ Resolved(i)
        /\ last.op = "submit_proof" /\ last.session_id = i
        /\ last.ret = "GameAlreadyResolved"
        /\ IsPlayer(games[i], last.player) /\ ~VerifiedOf(games[i], last.player)

\* C4 (as stated): after a successful submit_proof by a party, every later
\* submit_proof by the same party on that session returns AlreadyVerified.
C4_AlwaysAlreadyVerified ==
    [][ ( /\ last'.op = "submit_proof" /\ last'.ret # "AuthTrap"
          /\ Has(games, last'.session_id)
          /\ VerifiedOf(games[last'.session_id], last'.player) ) =>
          last'.ret = "AlreadyVerified" ]_vars

\* C4 (amended): after a successful submit_proof by a party, every later
\* submit_proof by the same party on that session record is rejected without a
\* verifier call and without a change to the store: with AlreadyVerified while
\* the session is unresolved, with GameAlreadyResolved once it is resolved.
C4_SecondSubmissionRejected ==
    [][ ( /\ last'.op = "submit_proof" /\ last'.ret # "AuthTrap"
          /\ Has(games, last'.session_id)
          /\ VerifiedOf(games[last'.session_id], last'.player) ) =>
          /\ last'.ret = IF games[last'.session_id].resolved
                         THEN "GameAlreadyResolved" ELSE "AlreadyVerified"
          /\ last'.calls = <<>>
          /\ games' = games ]_vars

C4_SecondSubmission ==
    \E i \in SessionIds :
        /\ Has(games, i) /\ ~games[i].resolved
        /\ last.op = "submit_proof" /\ last.session_id = i
        /\ last.ret = "AlreadyVerified"
        /\ VerifiedOf(games[i], last.player)

\* C5 (as stated): a submit_proof call (made with the player's authorization)
\* whose public_inputs differ from the stored target returns
\* PublicInputMismatch and does not call the verifier, whatever the proof.
C5_AlwaysMismatch ==
    [][ ( /\ last'.op = "submit_proof" /\ last'.ret # "AuthTrap"
          /\ Has(games, last'.session_id)
          /\ last'.public_inputs #
               BytesOfDigest(games[last'.session_id].target_public_inputs) ) =>
          /\ last'.ret = "PublicInputMismatch"
          /\ last'.calls = <<>> ]_vars

\* C5 (amended): an authorized submit_proof call whose public_inputs differ
\* from the stored target never reaches the verifier and changes nothing,
\* whatever the proof; it returns PublicInputMismatch when the session is
\* unresolved and the caller is a player of it who is not yet verified, and
\* otherwise the error of the earlier check (GameAlreadyResolved, NotPlayer,
\* AlreadyVerified).
C5_MismatchRejected ==
    [][ ( /\ last'.op = "submit_proof" /\ last'.ret # "AuthTrap"
          /\ Has(games, last'.session_id)
          /\ last'.public_inputs #
               BytesOfDigest(games[last'.session_id].target_public_inputs) ) =>
          LET game == games[last'.session_id]
          IN  /\ last'.calls = <<>>
              /\ games' = games
              /\ last'.ret =
                    IF game.resolved THEN "GameAlreadyResolved"
                    ELSE IF ~IsPlayer(game, last'.player) THEN "NotPlayer"
                    ELSE IF VerifiedOf(game, last'.player) THEN "AlreadyVerified"
                    ELSE "PublicInputMismatch" ]_vars

C5_Mismatch ==
    \E i \in SessionIds :
        /\ Has(games, i) /\ ~games[i].resolved
        /\ last.op = "submit_proof" /\ last.session_id = i
        /\ last.ret = "PublicInputMismatch" /\ last.calls = <<>>
        /\ last.public_inputs # BytesOfDigest(games[i].target_public_inputs)
        /\ IsPlayer(games[i], last.player) /\ ~VerifiedOf(games[i], last.player)

\* C6: when the verifier rejects the proof of a submit_proof call, the call
\* traps and the store is as before it: the submitting party's flag is still
\* false and the session is still unresolved.
C6_VerifierAbortRollsBack ==
    [][ ( /\ last'.op = "submit_proof"
          /\ \E k \in DOMAIN last'.calls :
                /\ last'.calls[k].fn = "verify_proof"
                /\ ~VerifierAccepts(last'.calls[k].proof,
                                    last'.calls[k].public_inputs) ) =>
          /\ last'.ret = "VerifierTrap"
          /\ games' = games
          /\ Has(games', last'.session_id)
          /\ ~games'[last'.session_id].resolved
          /\ ~VerifiedOf(games'[last'.session_id], last'.player) ]_vars

C6_InvalidProof ==
    \E i \in SessionIds :
        /\ Has(games, i) /\ ~games[i].resolved
        /\ last.op = "submit_proof" /\ last.session_id = i
        /\ last.ret = "VerifierTrap"
        /\ IsPlayer(games[i], last.player) /\ ~VerifiedOf(games[i], last.player)

C8_ResolvedHasSubmission ==
    \A i \in DOMAIN games :
        games[i].resolved => (games[i].player1_verified \/ games[i].player2_verified)

C8_ResolvedByOnePlayer ==
    \E i \in DOMAIN games :
        games[i].resolved /\ ~games[i].player1_verified /\ hubEnded[i] = 1

\* C9 (as stated): once the resolved flag of a session id is true it is true
\* in every later state, over any sequence of start_game, submit_proof and
\* resolve_game calls.
C9_ResolvedForever ==
    [][ \A i \in SessionIds : Resolved(i) => Resolved(i)' ]_vars

\* C9 (amended): once the resolved flag of a session id is true it stays true
\* through every submit_proof and resolve_game call and every start_game call
\* that traps; it becomes false again only when a start_game call for the same
\* id that the hub accepted overwrites the record.
C9_ResolvedUntilRestart ==
    [][ \A i \in SessionIds :
          (Resolved(i) /\ ~Resolved(i)') => AcceptedStart(last', i) ]_vars

C9_StillResolved ==
    \E i \in SessionIds :
        /\ Resolved(i)
        /\ last.session_id = i
        /\ \/ last.op = "submit_proof" /\ last.ret = "GameAlreadyResolved"
           \/ last.op = "start_game" /\ last.ret = "HubTrap"

\* C10 (as stated): a verified flag, once true, is true in every later state,
\* over any sequence of start_game, submit_proof and resolve_game calls.
C10_VerifiedForever ==
    [][ \A i \in SessionIds :
          /\ Flag1(i) => Flag1(i)'
          /\ Flag2(i) => Flag2(i)' ]_vars

\* C10 (amended): a player's verified flag becomes true only by a successful
\* submit_proof of that player, and once true it stays true through every
\* submit_proof and resolve_game call and every start_game call that traps; it
\* is false again only when a start_game call for the same id that the hub
\* accepted overwrites the record.
C10_VerifiedUntilRestart ==
    [][ \A i \in SessionIds :
          /\ (Flag1(i) /\ ~Flag1(i)') => AcceptedStart(last', i)
          /\ (Flag2(i) /\ ~Flag2(i)') => AcceptedStart(last', i)
          /\ (~Flag1(i) /\ Flag1(i)') =>
                /\ last'.op = "submit_proof" /\ last'.session_id = i
                /\ last'.ret = "Ok" /\ last'.player = games'[i].player1
                /\ Flag2(i)' = Flag2(i)
          /\ (~Flag2(i) /\ Flag2(i)') =>
                /\ last'.op = "submit_proof" /\ last'.session_id = i
                /\ last'.ret = "Ok" /\ last'.player = games'[i].player2
                /\ Flag1(i)' = Flag1(i) ]_vars

C10_BothVerified ==
    \E i \in SessionIds :
        /\ Flag1(i) /\ Flag2(i)
        /\ last.op = "submit_proof" /\ last.session_id = i /\ last.ret = "Ok"

\* C11 (as stated): for every session id, the target read by get_target after
\* the session's creation is the same value after any subsequent start_game,
\* submit_proof or resolve_game call.
C11_TargetNeverChanges ==
    [][\A i \in SessionIds :
          Has(games, i) =>
            /\ Has(games', i)
            /\ get_target(games', i).ret = get_target(games, i).ret]_vars

\* C11 (amended): a stored record is never removed, and the target read by
\* get_target changes only by a start_game for that id that the hub accepted;
\* submit_proof, resolve_game and a failed start_game leave it as it was.
C11_TargetChangesOnlyOnRestart ==
    [][\A i \in SessionIds :
          Has(games, i) =>
            /\ Has(games', i)
            /\ get_target(games', i).ret # get_target(games, i).ret
                 => AcceptedStart(last', i)]_vars

\* A resolved session whose target is still the hash of its id and players.
C11_TargetKept ==
    /\ Resolved(1)
    /\ last.op = "resolve_game" /\ last.ret \in Outcomes
    /\ get_target(games, 1).ret =
         keccak256(Seed(1, games[1].player1, games[1].player2))

\* C12: every stored session has player1 # player2, and start_game called
\* with player1 = player2 aborts, stores nothing and makes no hub call.
C12_NoSelfPlay ==
    [][/\ \A i \in DOMAIN games' : games'[i].player1 # games'[i].player2
       /\ (last'.op = "start_game" /\ last'.args[1] = last'.args[2])
            => /\ last'.ret = "PanicTrap"
               /\ last'.calls = <<>>
               /\ games' = games]_vars

\* A start_game with equal players on an id that has a record.
C12_SelfPlayAborted ==
    /\ last.op = "start_game" /\ last.args[1] = last.args[2]
    /\ last.ret = "PanicTrap"
    /\ Has(games, 1)

\* C13 (as stated): two sessions with different ids and the same two players
\* have different targets, and submit_proof on one with the other's target as
\* public_inputs returns PublicInputMismatch.
C13_AlwaysCrossMismatch ==
    [][/\ \A i \in DOMAIN games', j \in DOMAIN games' :
            (i # j /\ {games'[i].player1, games'[i].player2}
                        = {games'[j].player1, games'[j].player2})
              => get_target(games', i).ret # get_target(games', j).ret
       /\ ( /\ last'.op = "submit_proof" /\ last'.ret # "AuthTrap"
            /\ Has(games, last'.session_id)
            /\ \E j \in DOMAIN games :
                  /\ j # last'.session_id
                  /\ last'.public_inputs = BytesOfDigest(get_target(games, j).ret) )
            => last'.ret = "PublicInputMismatch"]_vars

\* C13 (amended): two sessions with different ids and the same two players
\* have different targets, and submit_proof on one with the other's target as
\* public_inputs is never accepted: it returns PublicInputMismatch when the
\* caller is a not yet verified player of an unresolved session and the error
\* of the earlier check otherwise, changes nothing and calls no verifier.
C13_CrossSessionRejected ==
    [][/\ \A i \in DOMAIN games', j \in DOMAIN games' :
            (i # j /\ {games'[i].player1, games'[i].player2}
                        = {games'[j].player1, games'[j].player2})
              => get_target(games', i).ret # get_target(games', j).ret
       /\ ( /\ last'.op = "submit_proof" /\ last'.ret # "AuthTrap"
            /\ Has(games, last'.session_id)
            /\ \E j \in DOMAIN games :
                  /\ j # last'.session_id
                  /\ last'.public_inputs = BytesOfDigest(get_target(games, j).ret) )
            => LET g == games[last'.session_id]
               IN  /\ games' = games
                   /\ last'.calls = <<>>
                   /\ last'.ret =
                        IF g.resolved THEN "GameAlreadyResolved"
                        ELSE IF ~IsPlayer(g, last'.player) THEN "NotPlayer"
                        ELSE IF VerifiedOf(g, last'.player) THEN "AlreadyVerified"
                        ELSE "PublicInputMismatch"]_vars

\* Two sessions of the same players; the target of session 2 was submitted to
\* session 1 and rejected as a mismatch.
C13_CrossSessionReplay ==
    /\ Has(games, 1) /\ Has(games, 2)
    /\ games[1].player1 = games[2].player1 /\ games[1].player2 = games[2].player2
    /\ last.op = "submit_proof" /\ last.session_id = 1
    /\ last.public_inputs = BytesOfDigest(get_target(games, 2).ret)
    /\ last.ret = "PublicInputMismatch"

C15_HubBeforePersist ==
    [][last'.op = "start_game"
         => /\ last'.calls # <<>>
                 => /\ Len(last'.calls) = 1
                    /\ last'.calls[1].fn = "start_game"
                    /\ last'.calls[1].stored = Has(games, last'.session_id)
                    /\ last'.calls[1].returned <=> last'.ret = "Ok"
                    /\ ~last'.calls[1].returned <=> last'.ret = "HubTrap"
            /\ last'.ret = "HubTrap"
                 => /\ last'.calls # <<>>
                    /\ games' = games
                    /\ hubEnded' = hubEnded
                    /\ outcomeOf' = outcomeOf]_vars

\* The hub rejected the registration of a new id: no record for it.
C15_HubRejectedNewId ==
    /\ last.op = "start_game" /\ last.ret = "HubTrap"
    /\ ~last.calls[1].stored
    /\ ~Has(games, last.session_id)

\* C16: after a successful start_game(id, p1, p2, s1, s2), get_game(id)
\* returns the record with these players and points, both verified flags
\* false, resolved false and the target keccak256(id, p1, p2), and the hub was
\* called with the same id, players and points.
C16_StartStoresRecord ==
    (last.op = "start_game" /\ last.ret = "Ok")
      => /\ Has(games, last.session_id)
         /\ get_game(games, last.session_id).ret =
              [ player1 |-> last.args[1],
                player2 |-> last.args[2],
                player1_points |-> last.args[3],
                player2_points |-> last.args[4],
                target_public_inputs |->
                  keccak256(Seed(last.session_id, last.args[1], last.args[2])),
                player1_verified |-> FALSE,
                player2_verified |-> FALSE,
                resolved |-> FALSE ]
         /\ Len(last.calls) = 1
         /\ last.calls[1].fn = "start_game"
         /\ last.calls[1].session_id = last.session_id
         /\ last.calls[1].player1 = last.args[1]
         /\ last.calls[1].player2 = last.args[2]
         /\ last.calls[1].player1_points = last.args[3]
         /\ last.calls[1].player2_points = last.args[4]

\* A successful start_game with different points for the two players.
C16_StartedWithPoints ==
    /\ last.op = "start_game" /\ last.ret = "Ok"
    /\ last.args[3] # last.args[4]
    /\ Has(games, last.session_id)

\* C17: a start_game, submit_proof or resolve_game call on one session id,
\* whatever its result, leaves the record of every other id unchanged and
\* causes no hub end_game call for another id.
C17_SessionsIndependent ==
    [][\A j \in SessionIds \ {last'.session_id} :
          /\ Has(games', j) <=> Has(games, j)
          /\ Has(games, j) => games'[j] = games[j]
          /\ hubEnded'[j] = hubEnded[j]
          /\ \A k \in DOMAIN last'.calls :
                last'.calls[k].fn = "end_game" => last'.calls[k].session_id # j]_vars

\* Session 1 was just resolved while session 2 is active with one flag set.
C17_OtherSessionUntouched ==
    /\ last.op = "resolve_game" /\ last.session_id = 1 /\ Len(last.calls) = 1
    /\ Resolved(1)
    /\ Has(games, 2) /\ ~Resolved(2) /\ Flag2(2) /\ ~Flag1(2)
    /\ hubEnded[2] = 0

\* C18: the typed errors of submit_proof and resolve_game are returned as
\* values, not as aborts: a call aborts only when no error condition holds
\* (authorization, verifier or hub failed), and a call that returns a typed
\* error leaves the store unchanged and makes no verifier or hub call.
C18_TypedErrorsReturned ==
    [][/\ last'.ret \in TypedErrors
            => /\ last'.op \in {"submit_proof", "resolve_game"}
               /\ games' = games
               /\ hubEnded' = hubEnded
               /\ last'.calls = <<>>
       /\ (last'.op = "submit_proof" /\ last'.ret \in Traps \ {"AuthTrap"})
            => /\ last'.ret = "VerifierTrap"
               /\ Has(games, last'.session_id)
               /\ LET g == games[last'.session_id]
                  IN  /\ ~g.resolved
                      /\ IsPlayer(g, last'.player)
                      /\ ~VerifiedOf(g, last'.player)
                      /\ last'.public_inputs = BytesOfDigest(g.target_public_inputs)
       /\ (last'.op = "resolve_game" /\ last'.ret \in Traps)
            => /\ last'.ret = "HubTrap"
               /\ Has(games, last'.session_id)
               /\ LET g == games[last'.session_id]
                  IN  /\ ~g.resolved
                      /\ g.player1_verified \/ g.player2_verified]_vars

\* resolve_game on an id without a record returned GameNotFound.
C18_ErrorReturned ==
    /\ last.op = "resolve_game" /\ last.ret = "GameNotFound"
    /\ last.calls = <<>>
    /\ ~Has(games, last.session_id)

\* C19: submit_proof on an existing, unresolved session by an authenticated
\* address that is neither of its players returns NotPlayer, whatever the
\* public_inputs and the proof, and sets neither verified flag.
C19_NonPlayerRejected ==
    [][( /\ last'.op = "submit_proof" /\ last'.ret # "AuthTrap"
         /\ Has(games, last'.session_id)
         /\ ~games[last'.session_id].resolved
         /\ ~IsPlayer(games[last'.session_id], last'.player) )
         => /\ last'.ret = "NotPlayer"
            /\ last'.calls = <<>>
            /\ games' = games]_vars

\* A non-player submitted the session's own target and got NotPlayer.
C19_NonPlayerWithTarget ==
    /\ last.op = "submit_proof" /\ last.ret = "NotPlayer"
    /\ Has(games, 1) /\ ~IsPlayer(games[1], last.player)
    /\ last.public_inputs = BytesOfDigest(games[1].target_public_inputs)

\* C20: a start_game for an id that already has a record (active or
\* resolved), accepted by the hub, overwrites it with a fresh record: the new
\* players and points, the target of the new (id, player1, player2), both
\* verified flags false and resolved false.
C20_StartOverwrites ==
    [][\A i \in SessionIds :
          (Has(games, i) /\ AcceptedStart(last', i))
            => /\ Has(games', i)
               /\ games'[i] = FreshRecord(i, last'.args)
               /\ ~games'[i].resolved
               /\ ~games'[i].player1_verified /\ ~games'[i].player2_verified]_vars

\* A resolved session was started again with other players.
C20_ResolvedOverwritten ==
    /\ AcceptedStart(last, 1) /\ last.calls[1].stored
    /\ hubEnded[1] = 1
    /\ Has(games, 1) /\ ~Resolved(1)
    /\ games[1].player1 = "C"

\* C21: when the hub's end_game aborts during resolve_game, the whole call is
\* rolled back: the record is unchanged with resolved still false, nothing is
\* counted as reported, and a resolve_game that follows on the same session
\* calls the hub's end_game again.
C21_HubAbortRollsBack ==
    [][/\ (last'.op = "resolve_game" /\ last'.ret = "HubTrap")
            => /\ games' = games
               /\ Has(games', last'.session_id)
               /\ ~games'[last'.session_id].resolved
               /\ hubEnded' = hubEnded
               /\ outcomeOf' = outcomeOf
               /\ Len(last'.calls) = 1
               /\ last'.calls[1].fn = "end_game"
               /\ ~last'.calls[1].returned
       /\ ( /\ last.op = "resolve_game" /\ last.ret = "HubTrap"
            /\ last'.op = "resolve_game" /\ last'.session_id = last.session_id )
            => /\ Len(last'.calls) = 1
               /\ last'.calls[1].fn = "end_game"
               /\ last'.calls[1].session_id = last.session_id]_vars

\* The hub aborted the report of a session that both players had verified.
C21_HubAborted ==
    /\ last.op = "resolve_game" /\ last.ret = "HubTrap"
    /\ Has(games, 1) /\ ~Resolved(1)
    /\ Flag1(1) /\ Flag2(1)
    /\ hubEnded[1] = 0

\* C22: resolve_game persists the record with resolved = true before it calls
\* the hub's end_game: the store at the moment of the call has resolved = true,
\* so a resolve_game run on that store makes no end_game call and a
\* submit_proof run on it is rejected with GameAlreadyResolved.
C22_ResolvedBeforeReport ==
    [][\A k \in DOMAIN last'.calls :
          last'.calls[k].fn = "end_game"
            => LET i == last'.session_id
                   at == [games EXCEPT ![i].resolved = last'.calls[k].resolved_in_store]
               IN  /\ last'.calls[k].resolved_in_store
                   /\ \A hubOk \in BOOLEAN :
                         /\ resolve_game(at, i, hubOk).calls = <<>>
                         /\ resolve_game(at, i, hubOk).store = at
                   /\ \A p \in Addresses, proof \in Proofs, pi \in PublicInputs(at) :
                         /\ submit_proof(at, i, p, proof, pi, TRUE).ret
                              = "GameAlreadyResolved"
                         /\ submit_proof(at, i, p, proof, pi, TRUE).calls = <<>>
                         /\ submit_proof(at, i, p, proof, pi, TRUE).store = at]_vars

\* An accepted report of a session only player1 had verified.
C22_ReportedResolved ==
    /\ last.op = "resolve_game" /\ last.ret = "Player1Won"
    /\ Len(last.calls) = 1 /\ last.calls[1].fn = "end_game"
    /\ last.calls[1].resolved_in_store
    /\ Resolved(1)

C24_VerifiedOnlyByProof ==
    [][\A i \in DOMAIN games' :
          LET g == games'[i]
              kept(p) == /\ Has(games, i)
                         /\ VerifiedOf(games[i], p)
                         /\ games[i].player1 = g.player1
                         /\ games[i].player2 = g.player2
                         /\ games[i].target_public_inputs = g.target_public_inputs
              proved(p) == /\ last'.op = "submit_proof" /\ last'.ret = "Ok"
                           /\ last'.session_id = i /\ last'.player = p
                           /\ Has(games, i) /\ ~games[i].resolved
                           /\ last'.public_inputs
                                = BytesOfDigest(games[i].target_public_inputs)
                           /\ Len(last'.calls) = 1
                           /\ last'.calls[1].fn = "verify_proof"
                           /\ last'.calls[1].public_inputs = last'.public_inputs
                           /\ last'.calls[1].returned
          IN  /\ g.player1_verified => kept(g.player1) \/ proved(g.player1)
              /\ g.player2_verified => kept(g.player2) \/ proved(g.player2)]_vars

\* player2 was just verified by an accepted proof for the session's target.
C24_VerifiedByProof ==
    /\ last.op = "submit_proof" /\ last.ret = "Ok"
    /\ Has(games, 1) /\ last.player = games[1].player2
    /\ Flag2(1) /\ ~Flag1(1)
    /\ last.calls[1].returned

\* C25: submit_proof returns the first failure in the order GameNotFound,
\* GameAlreadyResolved, NotPlayer, AlreadyVerified, PublicInputMismatch, and
\* calls the verifier only when all five checks pass.
C25_CheckOrder ==
    [][(last'.op = "submit_proof" /\ last'.ret # "AuthTrap")
         => LET i == last'.session_id
                passed == /\ Has(games, i)
                          /\ ~games[i].resolved
                          /\ IsPlayer(games[i], last'.player)
                          /\ ~VerifiedOf(games[i], last'.player)
                          /\ last'.public_inputs
                               = BytesOfDigest(games[i].target_public_inputs)
            IN  /\ ~passed
                     => /\ last'.calls = <<>>
                        /\ last'.ret =
                             IF ~Has(games, i) THEN "GameNotFound"
                             ELSE IF games[i].resolved THEN "GameAlreadyResolved"
                             ELSE IF ~IsPlayer(games[i], last'.player) THEN "NotPlayer"
                             ELSE IF VerifiedOf(games[i], last'.player)
                                  THEN "AlreadyVerified"
                             ELSE "PublicInputMismatch"
                /\ passed
                     => /\ Len(last'.calls) = 1
                        /\ last'.calls[1].fn = "verify_proof"
                        /\ last'.ret \in {"Ok", "VerifierTrap"}]_vars

\* A non-player on a resolved session got GameAlreadyResolved.
C25_NonPlayerAfterResolve ==
    /\ last.op = "submit_proof" /\ last.ret = "GameAlreadyResolved"
    /\ Resolved(1) /\ ~IsPlayer(games[1], last.player)

\* C26: a successful submit_proof changes only the submitting player's
\* verified flag, from false to true, in that session's record; the other
\* flag, resolved, the target, the players and the points are unchanged and
\* the hub is not called.
C26_SubmitFrame ==
    [][(last'.op = "submit_proof" /\ last'.ret = "Ok")
         => LET i == last'.session_id
            IN  /\ Has(games, i)
                /\ ~VerifiedOf(games[i], last'.player)
                /\ \/ /\ last'.player = games[i].player1
                      /\ games' = [games EXCEPT ![i].player1_verified = TRUE]
                   \/ /\ last'.player = games[i].player2
                      /\ games' = [games EXCEPT ![i].player2_verified = TRUE]
                /\ \A k \in DOMAIN last'.calls : last'.calls[k].fn = "verify_proof"
                /\ hubEnded' = hubEnded]_vars

\* player1 was verified after player2, in a session with different points.
C26_SecondFlagSet ==
    /\ last.op = "submit_proof" /\ last.ret = "Ok"
    /\ Has(games, 1) /\ last.player = games[1].player1
    /\ Flag1(1) /\ Flag2(1) /\ ~Resolved(1)
    /\ games[1].player1_points # games[1].player2_points

\* C27: start_game requires the authorization of both players, each for
\* (session_id, own points), before the hub is called and before a record is
\* stored: a call in which either is missing aborts with no hub call and no
\* change of the store. submit_proof requires the submitting player's
\* authorization before the session is looked up: without it the call aborts
\* whether or not the session exists.
C27_AuthorizationFirst ==
    [][/\ \A p1 \in AuthPlayers, p2 \in AuthPlayers, s \in PointPairs, hubOk \in BOOLEAN :
            \A a \in AuthCases(1, s[1], s[2]) :
               ( /\ StartGame(1, p1, p2, s[1], s[2], a[1], a[2], hubOk)
                 /\ \/ a[1] # AuthArgs(1, s[1])
                    \/ a[2] # AuthArgs(1, s[2]) )
                 => /\ last'.ret \in Traps
                    /\ p1 # p2 => last'.ret = "AuthTrap"
                    /\ last'.calls = <<>>
                    /\ games' = games
       /\ \A p \in AuthPlayers, proof \in Proofs, pi \in PublicInputs(games) :
            SubmitProof(1, p, proof, pi, FALSE)
              => /\ last'.ret = "AuthTrap"
                 /\ last'.calls = <<>>
                 /\ games' = games
       /\ last'.ret = "AuthTrap"
            => /\ last'.calls = <<>>
               /\ games' = games]_vars

\* A start_game for an id with a record aborted for want of authorization.
C27_StartUnauthorized ==
    /\ last.op = "start_game" /\ last.ret = "AuthTrap"
    /\ last.args[1] # last.args[2]
    /\ last.args[3] # last.args[4]
    /\ Has(games, 1)

\* C28: set_verifier authorized by the admin replaces the stored verifier
\* address and touches no session record; the stored verifier changes in no
\* other way, and every verify_proof call of a submit_proof goes to the
\* verifier stored at that time, also for sessions started before the change;
\* without the admin's authorization set_verifier, set_hub and set_admin
\* abort and change nothing.
C28_VerifierReplaced ==
    [][/\ last'.op \in {"set_verifier", "set_hub", "set_admin"}
            => /\ games' = games /\ hubEnded' = hubEnded /\ outcomeOf' = outcomeOf
               /\ last'.calls = <<>>
               /\ last'.player # instance.admin
                    => last'.ret = "AuthTrap" /\ instance' = instance
       /\ (last'.op = "set_verifier" /\ last'.player = instance.admin)
            => /\ last'.ret = "Ok"
               /\ get_verifier(instance') = last'.args[1]
               /\ instance' = [instance EXCEPT !.verifier = last'.args[1]]
       /\ get_verifier(instance') # get_verifier(instance)
            => last'.op = "set_verifier" /\ last'.player = instance.admin
       /\ \A k \in DOMAIN last'.calls :
             last'.calls[k].fn = "verify_proof"
               => /\ last'.op = "submit_proof"
                  /\ last'.calls[k].to = get_verifier(instance)]_vars

\* Both players are verified, the second one by a call to the verifier that
\* the admin has set in place of the constructor's.
C28_NewVerifierCalled ==
    /\ last.op = "submit_proof" /\ last.ret = "Ok"
    /\ get_verifier(instance) = "verifier2"
    /\ Len(last.calls) = 1 /\ last.calls[1].to = "verifier2"
    /\ Flag1(1) /\ Flag2(1)

\* C29 (as stated): resolve_game is open to any caller and, with an accepting
\* hub, resolves every existing unresolved session with a verified flag; a
\* session is resolved only with a verified flag; and under weak fairness of
\* resolve_game every such session is eventually resolved.
C29_EventuallyResolved ==
    /\ [][/\ Resolvable(1) => ENABLED ResolveGame(1, TRUE)
          /\ (Resolvable(1) /\ last'.op = "resolve_game" /\ last'.ret # "HubTrap")
               => /\ last'.ret \in Outcomes
                  /\ Has(games', 1) /\ games'[1].resolved
          /\ (~Resolved(1) /\ Has(games', 1) /\ games'[1].resolved)
               => last'.op = "resolve_game" /\ Resolvable(1)]_vars
    /\ Resolvable(1) ~> Resolved(1)

\* C29 (amended): resolve_game is open to any caller and, with an accepting
\* hub, resolves every existing unresolved session with a verified flag; a
\* session is resolved only with a verified flag; and under weak fairness of
\* resolve_game every such session is eventually resolved unless a start_game
\* for its id, accepted by the hub, overwrites the record first.
C29_ResolvedOrRestarted ==
    /\ [][/\ Resolvable(1) => ENABLED ResolveGame(1, TRUE)
          /\ (Resolvable(1) /\ last'.op = "resolve_game" /\ last'.ret # "HubTrap")
               => /\ last'.ret \in Outcomes
                  /\ Has(games', 1) /\ games'[1].resolved
          /\ (~Resolved(1) /\ Has(games', 1) /\ games'[1].resolved)
               => last'.op = "resolve_game" /\ Resolvable(1)]_vars
    /\ Resolvable(1) ~> (Resolved(1) \/ AcceptedStart(last, 1))

\* The session was resolved at the first accepted report after the hub had
\* rejected one.
C29_ResolvedAfterRejection ==
    /\ Resolved(1) /\ hubEnded[1] = 1
    /\ last.op = "resolve_game" /\ last.ret \in Outcomes
    /\ Len(last.calls) = 1 /\ last.calls[1].returned
    /\ Flag2(1) /\ ~Flag1(1)

====
